---- MODULE Spec2Model ----
(***************************************************************************)
(* Model of pkg/team/manager.go: the paginated fetch of the remote         *)
(* organization (Manager.GetCurrentConfig) and the reconciliation of a     *)
(* local configuration against it (Manager.SyncTeams).                     *)
(*                                                                         *)
(* Go values are represented as follows.  A map is a function whose        *)
(* DOMAIN is its key set.  A slice is a sequence (a nil slice and an empty *)
(* slice are both << >>).  A pointer result is << >> for nil and <<v>> for *)
(* a pointer to v.  A GraphQL cursor is the number of records that precede *)
(* the page it asks for, 0 standing for the null cursor.  An error is a    *)
(* string, "" standing for nil.                                            *)
(***************************************************************************)
EXTENDS Integers, Sequences, FiniteSets, TLC

VARIABLES
    remote,          \* the organization held by the remote platform
    teamsPerPage,    \* `first:` of the teams connection, as the server applies it
    membersPerPage,  \* `first:` of the members connection
    pc,              \* position of the single thread of control
    variables,       \* GetCurrentConfig: the cursor variables of the next query
    result,          \* GetCurrentConfig: the teams page being iterated
    ti,              \* GetCurrentConfig: index in result.Nodes of the team being expanded
    teamCfg,         \* GetCurrentConfig: the TeamConfig being assembled
    c,               \* GetCurrentConfig: the *config.Config being assembled
    upstreamCfg,     \* what GetCurrentConfig returned: << >> (nil) or <<config>>
    err,             \* the error GetCurrentConfig returned ("" for nil)
    queryFailed,     \* history: some Manager.query call returned an error
    queries,         \* history: every Manager.query call, in order, with its variables
    reads,           \* history: every members page the inner loop read, in order
    localCfg,        \* SyncTeams: the caller's local configuration, mutated in place
    localCfg0,       \* history: localCfg as it was when SyncTeams was called
    remote0,         \* history: remote as it was when SyncTeams was called
    dryTwin,         \* history: the teams a dry run making the same choices would hold
    force,           \* SyncTeams argument
    dryRun,          \* SyncTeams argument
    teamChanges,     \* SyncTeams: map team name -> teamChange
    todo,            \* SyncTeams: keys of teamChanges the apply loop has yet to visit
    applied,         \* history: teams whose local member list the apply loop stored back
    failedTeams,     \* history: teams whose SyncTeamMembers returned an error
    calls,           \* history: every remote mutation call issued, in order, with its outcome
    prompts,         \* history: every confirmation prompt issued, in order, with its answer
    policyTodo,      \* SyncTeams: the sorted team names the policy loop has yet to visit
    policyLog,       \* history: every iteration of the policy loop, in order
    ret,             \* what SyncTeams returned: [cfg |-> << >> or <<config>>, err |-> string]
    cancelled,       \* the caller's context.Context is cancelled
    cancelAt,        \* history: the calls and prompts that preceded the cancellation
    resolved         \* history: what each getExcludedUsers call returned and printed

fetchVars == <<variables, result, ti, teamCfg, c, upstreamCfg, err, queryFailed, queries, reads>>
syncVars == <<localCfg, localCfg0, remote0, dryTwin, force, dryRun, teamChanges, todo, applied,
              failedTeams, calls, prompts, policyTodo, policyLog, ret>>
envVars == <<remote, teamsPerPage, membersPerPage>>
ctxVars == <<cancelled, cancelAt>>
vars == <<envVars, pc, fetchVars, syncVars, ctxVars, resolved>>

----------------------------------------------------------------------------
(* Universe of the model *)

\* Logins of the organization's members.
Logins == {"a", "b", "c"}

\* Team display names.  Their slugs are pairwise distinct, as the remote
\* platform keeps them within one organization.
TeamNames == {"Dev Team", "Ops"}

\* Largest page size the remote is configured with in the model (the source
\* asks for pages of 100, far beyond what can be enumerated).
MaxPageSize == 2

Min(x, y) == IF x < y THEN x ELSE y

Range(s) == {s[i] : i \in DOMAIN s}

\* Byte order of the strings of the model, as sort.Strings compares them.
StrRank(s) ==
    CASE s = "" -> 0
      [] s = "Dev Team" -> 1
      [] s = "Ops" -> 2
      [] s = "a" -> 3
      [] s = "b" -> 4
      [] s = "c" -> 5

StrLess(x, y) == StrRank(x) < StrRank(y)

\* Insertion of x into the sorted sequence s, after the elements equal to it.
RECURSIVE InsertSorted(_, _)
InsertSorted(x, s) ==
    IF s = << >> THEN <<x>>
    ELSE IF StrLess(x, Head(s)) THEN <<x>> \o s
    ELSE <<Head(s)>> \o InsertSorted(x, Tail(s))

\* sort.Strings: the elements of s, duplicates kept, in ascending order.
RECURSIVE SortStrings(_)
SortStrings(s) ==
    IF s = << >> THEN << >> ELSE InsertSorted(Head(s), SortStrings(Tail(s)))

IsSorted(s) == \A i \in 1..(Len(s) - 1) : StrLess(s[i], s[i + 1])

\* All sequences that list the elements of S once each.
Perms(S) ==
    {s \in [1..Cardinality(S) -> S] : \A i, j \in 1..Cardinality(S) : s[i] = s[j] => i = j}

\* The sorted, duplicate-free sequence of the elements of S.
SortedSeq(S) == CHOOSE s \in Perms(S) : IsSorted(s)

EmptyMap == [x \in {} |-> {}]

\* m[k] = v on a Go map.
MapPut(m, k, v) == [x \in DOMAIN m \cup {k} |-> IF x = k THEN v ELSE m[x]]

\* The keys of a Go map, in the order one iteration over it yields them.
Keys(m) == CHOOSE s \in Perms(DOMAIN m) : TRUE

NoErr == ""

----------------------------------------------------------------------------
(* The remote platform *)

\* The slug under which the remote addresses a team in the membership calls.
slug(s) ==
    CASE s = "Dev Team" -> "dev-team"
      [] s = "Ops" -> "ops"
      [] OTHER -> s

\* The opaque node ID the remote assigned to a team.
TeamID(name) ==
    CASE name = "Dev Team" -> "T_dev"
      [] name = "Ops" -> "T_ops"

\* The directory entry (opaque ID and display name) of a member.
UserOf(login) ==
    CASE login = "a" -> [ID |-> "U_a", Name |-> "Ann"]
      [] login = "b" -> [ID |-> "U_b", Name |-> "Bob"]
      [] login = "c" -> [ID |-> "U_c", Name |-> "Cy"]

\* Review-request delegation as the remote reports it for a team:
\* switched off (the other fields still carry the platform's defaults), or
\* switched on.
DelegationOff ==
    [ReviewRequestDelegationEnabled |-> FALSE,
     ReviewRequestDelegationAlgorithm |-> "ROUND_ROBIN",
     ReviewRequestDelegationMemberCount |-> 1,
     ReviewRequestDelegationNotifyTeam |-> TRUE]

DelegationOn ==
    [ReviewRequestDelegationEnabled |-> TRUE,
     ReviewRequestDelegationAlgorithm |-> "LOAD_BALANCE",
     ReviewRequestDelegationMemberCount |-> 2,
     ReviewRequestDelegationNotifyTeam |-> TRUE]

\* A team of the remote organization: its identity, its delegation settings
\* and its members in the order the remote lists them.
RemoteTeam(name, members, delegation) ==
    [ID |-> TeamID(name), Name |-> name, Members |-> members, Delegation |-> delegation]

\* One node of the members connection.
MemberNode(login) == [ID |-> UserOf(login).ID, Login |-> login, Name |-> UserOf(login).Name]

\* members(first: membersPerPage, after: mc) of one remote team.
MembersPage(t, mc) ==
    LET m == Len(t.Members)
        last == Min(mc + membersPerPage, m)
    IN  [Nodes |-> [j \in 1..(last - mc) |-> MemberNode(t.Members[mc + j])],
         PageInfo |-> [EndCursor |-> IF last > mc THEN last ELSE 0,
                       HasNextPage |-> last < m]]

\* One node of the teams connection; the members cursor applies to every
\* team of the page alike.
TeamNode(t, mc) ==
    [ID |-> t.ID,
     Name |-> t.Name,
     ReviewRequestDelegationEnabled |-> t.Delegation.ReviewRequestDelegationEnabled,
     ReviewRequestDelegationAlgorithm |-> t.Delegation.ReviewRequestDelegationAlgorithm,
     ReviewRequestDelegationMemberCount |-> t.Delegation.ReviewRequestDelegationMemberCount,
     ReviewRequestDelegationNotifyTeam |-> t.Delegation.ReviewRequestDelegationNotifyTeam,
     Members |-> MembersPage(t, mc)]

\* Manager.query on success: teams(first: teamsPerPage, after: teamsCursor)
\* with members(after: membersCursor) nested in every team.
query(v) ==
    LET n == Len(remote)
        tc == v.teamsCursor
        last == Min(tc + teamsPerPage, n)
    IN  [Nodes |-> [i \in 1..(last - tc) |-> TeamNode(remote[tc + i], v.membersCursor)],
         PageInfo |-> [EndCursor |-> IF last > tc THEN last ELSE 0,
                       HasNextPage |-> last < n]]

\* Teams.WithID: << >> when no node has the id, else <<the first such node>>.
WithID(nodes, id) ==
    IF \E i \in DOMAIN nodes : nodes[i].ID = id
    THEN <<nodes[CHOOSE i \in DOMAIN nodes :
                    /\ nodes[i].ID = id
                    /\ \A j \in DOMAIN nodes : nodes[j].ID = id => i <= j]>>
    ELSE << >>

----------------------------------------------------------------------------
(* config.Config and its parts *)

ZeroCRA ==
    [Algorithm |-> "", Enabled |-> FALSE, ExcludedMembers |-> << >>,
     NotifyTeam |-> FALSE, TeamMemberCount |-> 0]

\* The zero value of config.TeamConfig, which a Go map yields for a missing key.
ZeroTeamConfig == [ID |-> "", Members |-> << >>, CodeReviewAssignment |-> ZeroCRA]

\* The empty configuration GetCurrentConfig starts from.
EmptyConfig == [Teams |-> EmptyMap, Members |-> EmptyMap, ExcludeCRAFromAllTeams |-> << >>]

\* The TeamConfig a team node starts with: the one already stored under its
\* name, or a new one carrying the node's ID and, when delegation is enabled,
\* its review assignment.
NewTeamCfg(cfg, t) ==
    IF t.Name \in DOMAIN cfg.Teams THEN cfg.Teams[t.Name]
    ELSE [ID |-> t.ID,
          Members |-> << >>,
          CodeReviewAssignment |->
              IF t.ReviewRequestDelegationEnabled
              THEN [Algorithm |-> t.ReviewRequestDelegationAlgorithm,
                    Enabled |-> t.ReviewRequestDelegationEnabled,
                    ExcludedMembers |-> << >>,
                    NotifyTeam |-> t.ReviewRequestDelegationNotifyTeam,
                    TeamMemberCount |-> t.ReviewRequestDelegationMemberCount]
              ELSE ZeroCRA]

\* The member list after the logins of one members page are appended to it.
AppendMembersUnsorted(members, nodes) == members \o [i \in DOMAIN nodes |-> nodes[i].Login]

AppendMembers(members, nodes) ==
    SortStrings(members \o [i \in DOMAIN nodes |-> nodes[i].Login])

\* The member directory after the members of one page are entered in it.
PutMembers(dir, nodes) ==
    LET logins == {nodes[i].Login : i \in DOMAIN nodes}
        lastOf(l) == CHOOSE i \in DOMAIN nodes :
                        /\ nodes[i].Login = l
                        /\ \A j \in DOMAIN nodes : nodes[j].Login = l => j <= i
    IN  [l \in DOMAIN dir \cup logins |->
            IF l \in logins
            THEN [ID |-> nodes[lastOf(l)].ID, Name |-> nodes[lastOf(l)].Name]
            ELSE dir[l]]

----------------------------------------------------------------------------
(* Manager.GetCurrentConfig *)

\* The cursor variables for the page after a teams page: the teams cursor
\* advances and the members cursor is cleared.
NextTeamsVariablesStaysOnPage(v, res) ==
    [teamsCursor |-> v.teamsCursor, membersCursor |-> 0]

NextTeamsVariablesKeepsMembers(v, res) ==
    [teamsCursor |-> res.PageInfo.EndCursor, membersCursor |-> v.membersCursor]

NextTeamsVariables(v, res) ==
    [teamsCursor |-> res.PageInfo.EndCursor, membersCursor |-> 0]

\* The outcomes of a remote call made with the caller's context: once the
\* context is cancelled the call can only fail.
Outcomes == IF cancelled THEN {FALSE} ELSE BOOLEAN

\* Manager.query, as recorded: which of the three call sites issued it, the
\* cursor variables it carried, the number of members pages read before it
\* and whether it succeeded.
QueryRecord(kind, v, ok) ==
    [kind |-> kind, teamsCursor |-> v.teamsCursor, membersCursor |-> v.membersCursor,
     reads |-> Len(reads), ok |-> ok]

\* The query whose result is the teams page being iterated.
PageQuery ==
    LET I == {i \in DOMAIN queries : queries[i].kind # "members" /\ queries[i].ok}
    IN  queries[CHOOSE i \in I : \A j \in I : j <= i]

\* A members page, as the inner loop read it: the team, the cursors of the
\* query whose result holds the page, and the page info of the page.
ReadRecord(teamNode, v) ==
    [team |-> teamNode.ID,
     teamsCursor |-> v.teamsCursor,
     membersCursor |-> v.membersCursor,
     EndCursor |-> teamNode.Members.PageInfo.EndCursor,
     HasNextPage |-> teamNode.Members.PageInfo.HasNextPage]

\* GetCurrentConfig returns (nil, error).
FetchFailsWithPartial(msg) ==
    /\ upstreamCfg' = <<c>>
    /\ err' = NoErr
    /\ pc' = "fetched"
    /\ UNCHANGED <<variables, result, ti, teamCfg, c, reads>>

FetchFails(msg) ==
    /\ upstreamCfg' = << >>
    /\ err' = msg
    /\ pc' = "fetched"
    /\ UNCHANGED <<variables, result, ti, teamCfg, c, reads>>

\* One pass of the inner loop over the team t of the current teams page,
\* reading the team's members from innerResult, the result of a query that
\* carried the cursors v.
ReadMembers(innerResult, v, t, cfg0) ==
    LET found == WithID(innerResult.Nodes, t.ID)
    IN  IF found = << >>
        THEN FetchFails("team with id not found")
        ELSE LET teamNode == found[1]
                 cfg == [cfg0 EXCEPT !.Members = AppendMembers(@, teamNode.Members.Nodes)]
             IN  /\ teamCfg' = cfg
                 /\ c' = [c EXCEPT !.Members = PutMembers(@, teamNode.Members.Nodes),
                                   !.Teams = MapPut(@, t.Name, cfg)]
                 /\ reads' = Append(reads, ReadRecord(teamNode, v))
                 /\ IF teamNode.Members.PageInfo.HasNextPage
                    THEN /\ variables' = [variables EXCEPT
                                             !.membersCursor = teamNode.Members.PageInfo.EndCursor]
                         /\ pc' = "members"
                         /\ ti' = ti
                    ELSE /\ variables' = variables
                         /\ pc' = "teams"
                         /\ ti' = ti + 1
                 /\ UNCHANGED <<result, upstreamCfg, err>>

\* Manager.query returned an error, which GetCurrentConfig wraps and returns.
QueryError(msg) ==
    /\ queryFailed' = TRUE
    /\ FetchFails(msg)

\* The first query, before the loops.
FirstQuery ==
    /\ pc = "start"
    /\ \E ok \in Outcomes :
          /\ queries' = Append(queries, QueryRecord("first", variables, ok))
          /\ IF ok
             THEN /\ result' = query(variables)
                  /\ ti' = 1
                  /\ pc' = "teams"
                  /\ UNCHANGED <<variables, teamCfg, c, upstreamCfg, err, queryFailed, reads>>
             ELSE QueryError("failed to query github api")
    /\ UNCHANGED <<envVars, syncVars, ctxVars, resolved>>

\* The next team of the current page: its TeamConfig is set up and its first
\* members page is read from the teams result itself.
ExpandTeam ==
    /\ pc = "teams"
    /\ ti <= Len(result.Nodes)
    /\ ReadMembers(result, PageQuery, result.Nodes[ti], NewTeamCfg(c, result.Nodes[ti]))
    /\ UNCHANGED <<queryFailed, queries>>
    /\ UNCHANGED <<envVars, syncVars, ctxVars, resolved>>

\* A later members page of the team being expanded.
RequeryMembers ==
    /\ pc = "members"
    /\ \E ok \in Outcomes :
          /\ queries' = Append(queries, QueryRecord("members", variables, ok))
          /\ IF ok
             THEN /\ ReadMembers(query(variables), variables, result.Nodes[ti], teamCfg)
                  /\ UNCHANGED queryFailed
             ELSE QueryError("failed to requery team members")
    /\ UNCHANGED <<envVars, syncVars, ctxVars, resolved>>

\* The current teams page is exhausted and reports a next page.
AdvanceTeams ==
    /\ pc = "teams"
    /\ ti > Len(result.Nodes)
    /\ result.PageInfo.HasNextPage
    /\ variables' = NextTeamsVariables(variables, result)
    /\ pc' = "requeryTeams"
    /\ UNCHANGED <<result, ti, teamCfg, c, upstreamCfg, err, queryFailed, queries, reads>>
    /\ UNCHANGED <<envVars, syncVars, ctxVars, resolved>>

\* The query for a later teams page.
RequeryTeams ==
    /\ pc = "requeryTeams"
    /\ \E ok \in Outcomes :
          /\ queries' = Append(queries, QueryRecord("teams", variables, ok))
          /\ IF ok
             THEN /\ result' = query(variables)
                  /\ ti' = 1
                  /\ pc' = "teams"
                  /\ UNCHANGED <<variables, teamCfg, c, upstreamCfg, err, queryFailed, reads>>
             ELSE QueryError("failed to requery teams")
    /\ UNCHANGED <<envVars, syncVars, ctxVars, resolved>>

\* The last teams page is exhausted: GetCurrentConfig returns (c, nil).
ReturnConfig ==
    /\ pc = "teams"
    /\ ti > Len(result.Nodes)
    /\ ~result.PageInfo.HasNextPage
    /\ upstreamCfg' = <<c>>
    /\ err' = NoErr
    /\ pc' = "fetched"
    /\ UNCHANGED <<variables, result, ti, teamCfg, c, queryFailed, queries, reads>>
    /\ UNCHANGED <<envVars, syncVars, ctxVars, resolved>>

GetCurrentConfig ==
    \/ FirstQuery
    \/ ExpandTeam
    \/ RequeryMembers
    \/ AdvanceTeams
    \/ RequeryTeams
    \/ ReturnConfig

----------------------------------------------------------------------------
(* Manager.SyncTeams: the diff *)

\* slices.NotIn: the elements of a that do not occur in b, in a's order.
NotIn(a, b) == SelectSeq(a, LAMBDA x : x \notin Range(b))

\* reflect.DeepEqual on two TeamConfig values.
DeepEqual(x, y) == x = y

\* upstreamCfg.Teams[localTeamName]: the zero value when the key is missing.
UpstreamTeamBySlug(cfg, name) ==
    IF slug(name) \in DOMAIN cfg.Teams THEN cfg.Teams[slug(name)] ELSE ZeroTeamConfig

UpstreamTeam(cfg, name) ==
    IF name \in DOMAIN cfg.Teams THEN cfg.Teams[name] ELSE ZeroTeamConfig

\* The members to add to and to remove from the remote team so that it
\* matches localTeam; both empty when the two are deeply equal once the
\* local excluded members are cleared.
TeamChangeSwapped(localTeam, upstreamTeam) ==
    [add |-> NotIn(upstreamTeam.Members, localTeam.Members),
     remove |-> NotIn(localTeam.Members, upstreamTeam.Members)]

TeamChange(localTeam, upstreamTeam) ==
    LET cleared == [localTeam EXCEPT !.CodeReviewAssignment.ExcludedMembers = << >>]
    IN  IF ~DeepEqual(cleared, upstreamTeam)
        THEN [add |-> NotIn(cleared.Members, upstreamTeam.Members),
              remove |-> NotIn(upstreamTeam.Members, cleared.Members)]
        ELSE [add |-> << >>, remove |-> << >>]

\* teamChanges after the loop over the local teams: an entry for every local
\* team with a member to add or to remove.
ComputeTeamChangesOfAllTeams(local, upstream) ==
    LET names == DOMAIN local.Teams \cup DOMAIN upstream.Teams
        localTeam(n) == IF n \in DOMAIN local.Teams THEN local.Teams[n] ELSE ZeroTeamConfig
        change(n) == TeamChange(localTeam(n), UpstreamTeam(upstream, n))
        changed == {n \in names : Len(change(n).add) # 0 \/ Len(change(n).remove) # 0}
    IN  [n \in changed |-> change(n)]

ComputeTeamChanges(local, upstream) ==
    LET change(n) == TeamChange(local.Teams[n], UpstreamTeam(upstream, n))
        changed == {n \in DOMAIN local.Teams :
                       Len(change(n).add) # 0 \/ Len(change(n).remove) # 0}
    IN  [n \in changed |-> change(n)]

----------------------------------------------------------------------------
(* Manager.SyncTeams: remote mutation calls *)

NoInput ==
    [Algorithm |-> "", Enabled |-> FALSE, ExcludedTeamMemberIDs |-> {},
     NotifyTeam |-> FALSE, TeamMemberCount |-> 0]

\* A membership call: Teams.AddTeamMembershipBySlug / RemoveTeamMembershipBySlug.
MemberCall(kind, teamName, user) ==
    [kind |-> kind, team |-> teamName, target |-> slug(teamName), user |-> user,
     input |-> NoInput, ok |-> TRUE]

\* The calls SyncTeamMembers makes when none fails: one add per login of
\* add, then one remove per login of remove.
SyncTeamMembersAddsOnly(teamName, add, remove) ==
    [i \in DOMAIN add |-> MemberCall("add", teamName, add[i])]

SyncTeamMembersRemovesFirst(teamName, add, remove) ==
    [i \in DOMAIN remove |-> MemberCall("remove", teamName, remove[i])]
    \o [i \in DOMAIN add |-> MemberCall("add", teamName, add[i])]

SyncTeamMembers(teamName, add, remove) ==
    [i \in DOMAIN add |-> MemberCall("add", teamName, add[i])]
    \o [i \in DOMAIN remove |-> MemberCall("remove", teamName, remove[i])]

\* The calls SyncTeamMembers has issued when the call after the first k
\* fails (none fails when k = Len(planned)): it returns at the first error.
IssuedCallsNoAbort(planned, k) ==
    [i \in DOMAIN planned |-> [planned[i] EXCEPT !.ok = (i # k + 1)]]

IssuedCalls(planned, k) ==
    [i \in 1..Min(k + 1, Len(planned)) |-> [planned[i] EXCEPT !.ok = (i <= k)]]

\* Whether the remote has a team addressed by the given slug / node ID.
HasSlug(org, s) == \E i \in DOMAIN org : slug(org[i].Name) = s
HasID(org, id) == \E i \in DOMAIN org : org[i].ID = id

\* The remote organization after one successful mutation call.
ApplyCall(org, call) ==
    [i \in DOMAIN org |->
        IF call.kind = "add" /\ slug(org[i].Name) = call.target
        THEN [org[i] EXCEPT !.Members =
                 IF call.user \in Range(@) THEN @ ELSE Append(@, call.user)]
        ELSE IF call.kind = "remove" /\ slug(org[i].Name) = call.target
        THEN [org[i] EXCEPT !.Members = SelectSeq(@, LAMBDA x : x # call.user)]
        ELSE IF call.kind = "policy" /\ org[i].ID = call.target
        THEN [org[i] EXCEPT !.Delegation =
                 [ReviewRequestDelegationEnabled |-> call.input.Enabled,
                  ReviewRequestDelegationAlgorithm |-> call.input.Algorithm,
                  ReviewRequestDelegationMemberCount |-> call.input.TeamMemberCount,
                  ReviewRequestDelegationNotifyTeam |-> call.input.NotifyTeam]]
        ELSE org[i]]

\* The remote organization after the successful ones of a sequence of calls.
RECURSIVE ApplyCalls(_, _)
ApplyCalls(org, cs) ==
    IF cs = << >> THEN org
    ELSE ApplyCalls(IF Head(cs).ok THEN ApplyCall(org, Head(cs)) ELSE org, Tail(cs))

\* One loop of getExcludedUsers over a list of logins: the key set of the
\* map m once the ID of every login found in `members` is entered in it.
RECURSIVE PutFound(_, _, _)
PutFound(m, members, logins) ==
    IF logins = << >> THEN m
    ELSE PutFound(IF Head(logins) \in DOMAIN members
                  THEN m \cup {members[Head(logins)].ID}
                  ELSE m,
                  members, Tail(logins))

\* getExcludedUsers: the key set of m after the loop over the team's own
\* exclusions and the loop over the organization-wide ones.  The source
\* returns the keys as a slice in map-iteration order.
getExcludedUsersOfTeamList(teamName, members, excTeamMembers, excAllTeams) ==
    PutFound({}, members, excTeamMembers)

getExcludedUsers(teamName, members, excTeamMembers, excAllTeams) ==
    PutFound(PutFound({}, members, excTeamMembers), members, excAllTeams)

\* The logins getExcludedUsers prints an "[ERROR] user ... not found" line
\* for, in order: only the loop over the team's own exclusions prints.
LookupErrors(teamName, members, excTeamMembers) ==
    SelectSeq(excTeamMembers, LAMBDA l : l \notin DOMAIN members)

\* The input of the updateTeamReviewAssignment mutation for a local team.
ReviewAssignmentInput(cfg, teamName) ==
    LET cra == cfg.Teams[teamName].CodeReviewAssignment
    IN  [Algorithm |-> cra.Algorithm,
         Enabled |-> cra.Enabled,
         ExcludedTeamMemberIDs |->
             getExcludedUsers(teamName, cfg.Members, cra.ExcludedMembers,
                              cfg.ExcludeCRAFromAllTeams),
         NotifyTeam |-> cra.NotifyTeam,
         TeamMemberCount |-> cra.TeamMemberCount]

\* A policy call: SyncTeamReviewAssignment with the stored team's ID.
PolicyCall(cfg, teamName, ok) ==
    [kind |-> "policy", team |-> teamName, target |-> cfg.Teams[teamName].ID, user |-> "",
     input |-> ReviewAssignmentInput(cfg, teamName), ok |-> ok]

----------------------------------------------------------------------------
(* Manager.SyncTeams: control flow *)

Answers == {"yes", "no", "error"}

\* terminal.AskForConfirmation, as recorded: the message, the answer (or the
\* failure to read one) and the number of mutation calls issued before it.
Prompt(msg, answer) == [msg |-> msg, answer |-> answer, at |-> Len(calls)]

\* Whether the operator is asked at a confirmation step.
AsksAlways(forced) == TRUE

Asks(forced) == ~forced

\* `yes` after the confirmation step: force, or the operator's answer.
ProceedsAlways(forced, answer) == TRUE

Proceeds(forced, answer) == forced \/ answer = "yes"

\* The member set the apply loop stores back for a team: the local members,
\* minus the removed logins, plus the added ones.
NewMembersFromAdds(members, change) == Range(change.add)

NewMembers(members, change) ==
    (Range(members) \ Range(change.remove)) \cup Range(change.add)

\* The TeamConfig the apply loop stores back: the stored one with a new
\* member list.
StoredTeamFresh(team, members) == [ZeroTeamConfig EXCEPT !.Members = members]

StoredTeam(team, members) == [team EXCEPT !.Members = members]

\* Whether the membership calls are made at all.
IssuesCallsAlways(dry) == TRUE

IssuesCalls(dry) == ~dry

\* The team names the policy loop visits, in order.
PolicyOrder(teams) == SortStrings(Keys(teams))

\* The team names left to the policy loop after one policy call.
PolicyRestAbortsOnError(rest, ok) == IF ok THEN Tail(rest) ELSE << >>

PolicyRest(rest, ok) == Tail(rest)

\* One iteration of the policy loop, as recorded: the team, the review
\* assignment read from the stored team and the input built from it.
PolicyVisit(cfg, teamName) ==
    [team |-> teamName,
     cra |-> cfg.Teams[teamName].CodeReviewAssignment,
     input |-> ReviewAssignmentInput(cfg, teamName)]

SyncReturns(cfg, e) ==
    /\ ret' = [cfg |-> cfg, err |-> e]
    /\ pc' = "done"

\* GetCurrentConfig has returned: on an error SyncTeams returns it, otherwise
\* it computes teamChanges.
Diff ==
    /\ pc = "fetched"
    /\ IF err # NoErr
       THEN /\ SyncReturns(<< >>, err)
            /\ UNCHANGED teamChanges
       ELSE /\ teamChanges' = ComputeTeamChanges(localCfg, upstreamCfg[1])
            /\ pc' = IF DOMAIN teamChanges' # {} THEN "confirmMembers" ELSE "confirmPolicy"
            /\ ret' = ret
    /\ UNCHANGED <<envVars, fetchVars, ctxVars, resolved, localCfg, localCfg0, remote0, dryTwin,
                   force, dryRun, todo, applied, failedTeams, calls, prompts, policyTodo,
                   policyLog>>

\* The confirmation of the membership changes.
ConfirmMembers ==
    /\ pc = "confirmMembers"
    /\ \E answer \in (IF Asks(force) THEN Answers ELSE {"yes"}) :
          /\ prompts' = IF Asks(force)
                        THEN Append(prompts, Prompt("Continue?", answer))
                        ELSE prompts
          /\ IF Asks(force) /\ answer = "error"
             THEN /\ SyncReturns(<< >>, "confirmation failed")
                  /\ todo' = todo
             ELSE /\ ret' = ret
                  /\ IF Proceeds(force, answer)
                     THEN /\ todo' = DOMAIN teamChanges
                          /\ pc' = "apply"
                     ELSE /\ todo' = todo
                          /\ pc' = "confirmPolicy"
    /\ UNCHANGED <<envVars, fetchVars, ctxVars, resolved, localCfg, localCfg0, remote0, dryTwin,
                   force, dryRun, teamChanges, applied, failedTeams, calls, policyTodo,
                   policyLog>>

\* One iteration of the apply loop, for a team the map iteration yields next.
ApplyTeam ==
    /\ pc = "apply"
    /\ todo # {}
    /\ \E teamName \in todo :
          LET change == teamChanges[teamName]
              planned == IF IssuesCalls(dryRun)
                         THEN SyncTeamMembers(teamName, change.add, change.remove)
                         ELSE << >>
              reachable == HasSlug(remote, slug(teamName)) /\ ~cancelled
          IN  \E k \in (IF reachable \/ planned = << >> THEN 0..Len(planned) ELSE {0}) :
                 LET issued == IssuedCalls(planned, k)
                     failed == \E i \in DOMAIN issued : ~issued[i].ok
                 IN  /\ calls' = calls \o issued
                     /\ remote' = ApplyCalls(remote, issued)
                     /\ todo' = todo \ {teamName}
                     /\ pc' = IF todo' = {} THEN "confirmPolicy" ELSE "apply"
                     /\ dryTwin' = [dryTwin EXCEPT ![teamName].Members =
                                        NewMembers(SortedSeq(@), change)]
                     /\ IF failed
                        THEN /\ failedTeams' = failedTeams \cup {teamName}
                             /\ UNCHANGED <<localCfg, applied>>
                        ELSE /\ \E members \in Perms(NewMembers(localCfg.Teams[teamName].Members,
                                                                 change)) :
                                   localCfg' = [localCfg EXCEPT
                                                   !.Teams[teamName] = StoredTeam(@, members)]
                             /\ applied' = applied \cup {teamName}
                             /\ UNCHANGED failedTeams
    /\ UNCHANGED <<teamsPerPage, membersPerPage, fetchVars, ctxVars, resolved, localCfg0, remote0,
                   force, dryRun, teamChanges, prompts, policyTodo, policyLog, ret>>

\* The confirmation of the policy pass.
ConfirmPolicy ==
    /\ pc = "confirmPolicy"
    /\ \E answer \in (IF Asks(force) THEN Answers ELSE {"yes"}) :
          /\ prompts' = IF Asks(force)
                        THEN Append(prompts,
                                    Prompt("Do you want to update CodeReviewAssignments?",
                                           answer))
                        ELSE prompts
          /\ IF Asks(force) /\ answer = "error"
             THEN /\ SyncReturns(<< >>, "confirmation failed")
                  /\ policyTodo' = policyTodo
             ELSE IF Proceeds(force, answer)
             THEN /\ policyTodo' = PolicyOrder(localCfg.Teams)
                  /\ pc' = "policy"
                  /\ ret' = ret
             ELSE /\ SyncReturns(<<localCfg>>, NoErr)
                  /\ policyTodo' = policyTodo
    /\ UNCHANGED <<envVars, fetchVars, ctxVars, resolved, localCfg, localCfg0, remote0, dryTwin,
                   force, dryRun, teamChanges, todo, applied, failedTeams, calls, policyLog>>

\* One iteration of the policy loop, for the next team name in sorted order.
PolicyTeam ==
    /\ pc = "policy"
    /\ policyTodo # << >>
    /\ LET teamName == Head(policyTodo)
           known == HasID(remote, localCfg.Teams[teamName].ID)
       IN  /\ policyLog' = Append(policyLog, PolicyVisit(localCfg, teamName))
           /\ IF IssuesCalls(dryRun)
              THEN \E ok \in (IF known THEN Outcomes ELSE {FALSE}) :
                      LET call == PolicyCall(localCfg, teamName, ok)
                      IN  /\ calls' = Append(calls, call)
                          /\ remote' = ApplyCalls(remote, <<call>>)
                          /\ policyTodo' = PolicyRest(policyTodo, ok)
              ELSE /\ policyTodo' = Tail(policyTodo)
                   /\ UNCHANGED <<calls, remote>>
    /\ UNCHANGED <<teamsPerPage, membersPerPage, pc, fetchVars, ctxVars, resolved, localCfg,
                   localCfg0, remote0, dryTwin, force, dryRun, teamChanges, todo, applied,
                   failedTeams, prompts, ret>>

\* The policy loop is over: SyncTeams returns (localCfg, nil).
ReturnLocal ==
    /\ pc = "policy"
    /\ policyTodo = << >>
    /\ SyncReturns(<<localCfg>>, NoErr)
    /\ UNCHANGED <<envVars, fetchVars, ctxVars, resolved, localCfg, localCfg0, remote0, dryTwin,
                   force, dryRun, teamChanges, todo, applied, failedTeams, calls, prompts,
                   policyTodo, policyLog>>

SyncTeams ==
    \/ Diff
    \/ ConfirmMembers
    \/ ApplyTeam
    \/ ConfirmPolicy
    \/ PolicyTeam
    \/ ReturnLocal

\* The caller cancels the context it passed to SyncTeams while the run is
\* under way.
Cancel ==
    /\ pc # "done"
    /\ ~cancelled
    /\ cancelled' = TRUE
    /\ cancelAt' = [calls |-> Len(calls), prompts |-> Len(prompts), queries |-> Len(queries)]
    /\ UNCHANGED <<envVars, pc, fetchVars, syncVars, resolved>>

\* The policy loop's call of getExcludedUsers for a local team, on its own:
\* the slice it returns, in some map-iteration order, and the logins it
\* prints an error line for.
ResolveExcluded ==
    /\ \E teamName \in DOMAIN localCfg.Teams :
          LET cra == localCfg.Teams[teamName].CodeReviewAssignment
              m == getExcludedUsers(teamName, localCfg.Members, cra.ExcludedMembers,
                                    localCfg.ExcludeCRAFromAllTeams)
          IN  \E memberIDs \in Perms(m) :
                 resolved' = resolved \cup
                     {[team |-> teamName,
                       memberIDs |-> memberIDs,
                       errors |-> LookupErrors(teamName, localCfg.Members,
                                               cra.ExcludedMembers)]}
    /\ UNCHANGED <<envVars, pc, fetchVars, syncVars, ctxVars>>

\* A teams map with every member list taken as a set.
TeamsAsSets(teams) ==
    [n \in DOMAIN teams |->
        [ID |-> teams[n].ID,
         Members |-> Range(teams[n].Members),
         CodeReviewAssignment |-> teams[n].CodeReviewAssignment]]

----------------------------------------------------------------------------
(* Initial states *)

PageSizes == 1..MaxPageSize

\* The member lists of a remote team over a set of logins, in any order.
MemberLists(logins) == UNION {Perms(S) : S \in SUBSET logins}

\* The sorted member lists of a local team over a set of logins.
SortedLists(logins) == {SortedSeq(S) : S \in SUBSET logins}

\* The member lists over a set of logins in descending order.
DescendingLists(logins) ==
    {[i \in 1..Len(s) |-> s[Len(s) + 1 - i]] : s \in SortedLists(logins)}

\* The state of GetCurrentConfig and SyncTeams on entry.
Entry ==
    /\ pc = "start"
    /\ variables = [teamsCursor |-> 0, membersCursor |-> 0]
    /\ result = [Nodes |-> << >>, PageInfo |-> [EndCursor |-> 0, HasNextPage |-> FALSE]]
    /\ ti = 0
    /\ teamCfg = ZeroTeamConfig
    /\ c = EmptyConfig
    /\ upstreamCfg = << >>
    /\ err = NoErr
    /\ queryFailed = FALSE
    /\ queries = << >>
    /\ reads = << >>
    /\ localCfg0 = localCfg
    /\ remote0 = remote
    /\ dryTwin = TeamsAsSets(localCfg.Teams)
    /\ teamChanges = EmptyMap
    /\ todo = {}
    /\ applied = {}
    /\ failedTeams = {}
    /\ calls = << >>
    /\ prompts = << >>
    /\ policyTodo = << >>
    /\ policyLog = << >>
    /\ ret = [cfg |-> << >>, err |-> NoErr]
    /\ cancelled = FALSE
    /\ cancelAt = [calls |-> 0, prompts |-> 0, queries |-> 0]
    /\ resolved = {}

\* GetCurrentConfig alone, over every organization of at most two teams,
\* every listing order of teams and members and every pair of page sizes.
FetchOrgs ==
    LET dev == {<< >>} \cup {<<RemoteTeam("Dev Team", m, d)>> :
                                m \in MemberLists(Logins), d \in {DelegationOff, DelegationOn}}
        ops == {<< >>} \cup {<<RemoteTeam("Ops", m, DelegationOff)>> : m \in MemberLists(Logins)}
    IN  {x \o y : x \in dev, y \in ops} \cup {y \o x : x \in dev, y \in ops}

InitFetch ==
    /\ remote \in FetchOrgs
    /\ teamsPerPage \in PageSizes
    /\ membersPerPage \in PageSizes
    /\ localCfg = EmptyConfig
    /\ force = FALSE
    /\ dryRun = FALSE
    /\ Entry

\* SyncTeams.  The remote lists "Ops" before "Dev Team" and members in
\* descending order, one team and at most MaxPageSize members per page.
\* "Ops" is always a local team and varies in its members on both sides;
\* "Dev Team" varies in its presence on either side, in its members and in
\* its review assignment.
LocalCRAs ==
    {ZeroCRA,
     [ZeroCRA EXCEPT !.ExcludedMembers = <<"a">>],
     [Algorithm |-> "LOAD_BALANCE", Enabled |-> TRUE, ExcludedMembers |-> <<"a">>,
      NotifyTeam |-> TRUE, TeamMemberCount |-> 2]}

SyncOrgs ==
    LET dev == {<< >>} \cup {<<RemoteTeam("Dev Team", m, d)>> :
                                m \in DescendingLists({"a"}),
                                d \in {DelegationOff, DelegationOn}}
        ops == {<< >>} \cup {<<RemoteTeam("Ops", m, DelegationOff)>> :
                                m \in DescendingLists(Logins)}
    IN  {y \o x : x \in dev, y \in ops}

LocalTeams ==
    LET dev == {EmptyMap} \cup
               {MapPut(EmptyMap, "Dev Team",
                       [ID |-> TeamID("Dev Team"), Members |-> m, CodeReviewAssignment |-> cra]) :
                   m \in SortedLists({"a", "b"}), cra \in LocalCRAs}
        ops == {[ID |-> TeamID("Ops"), Members |-> m, CodeReviewAssignment |-> ZeroCRA] :
                   m \in SortedLists(Logins)}
    IN  {MapPut(d, "Ops", o) : d \in dev, o \in ops}

LocalDirectory == [l \in Logins |-> UserOf(l)]

Init ==
    /\ remote \in SyncOrgs
    /\ teamsPerPage = 1
    /\ membersPerPage = MaxPageSize
    /\ localCfg \in {[Teams |-> t, Members |-> LocalDirectory, ExcludeCRAFromAllTeams |-> << >>] :
                        t \in LocalTeams}
    /\ force \in BOOLEAN
    /\ dryRun \in BOOLEAN
    /\ Entry

\* SyncTeams under a context the caller may cancel: both teams on both
\* sides, the remote "Dev Team" with delegation off, no dry run.
InitCancel ==
    /\ Init
    /\ Len(remote) = 2
    /\ ~remote[2].Delegation.ReviewRequestDelegationEnabled
    /\ "Dev Team" \in DOMAIN localCfg.Teams
    /\ ~dryRun

\* getExcludedUsers for one team, over every member directory, every team
\* drawn from the directory and every pair of exclusion lists of at most
\* MaxExcluded logins (repetitions included).
MaxExcluded == 2

LoginLists == UNION {[1..n -> Logins] : n \in 0..MaxExcluded}

Directories == {[l \in D |-> UserOf(l)] : D \in SUBSET Logins}

ExcludedConfigs ==
    {[Teams |-> MapPut(EmptyMap, "Ops",
                       [ID |-> TeamID("Ops"),
                        Members |-> m,
                        CodeReviewAssignment |-> [ZeroCRA EXCEPT !.ExcludedMembers = x]]),
      Members |-> d,
      ExcludeCRAFromAllTeams |-> y] :
        m \in SortedLists(Logins), d \in Directories, x \in LoginLists, y \in LoginLists}

InitExcluded ==
    /\ remote = << >>
    /\ teamsPerPage = 1
    /\ membersPerPage = MaxPageSize
    /\ localCfg \in {cfg \in ExcludedConfigs :
                        Range(cfg.Teams["Ops"].Members) \subseteq DOMAIN cfg.Members}
    /\ force = FALSE
    /\ dryRun = FALSE
    /\ Entry

----------------------------------------------------------------------------
(* Specifications *)

Next == GetCurrentConfig \/ SyncTeams

Spec == Init /\ [][Next]_vars

SpecFetch == InitFetch /\ [][GetCurrentConfig]_vars

\* GetCurrentConfig keeps running until it returns.
SpecFetchLive == SpecFetch /\ WF_vars(GetCurrentConfig)

NextCancel == Next \/ Cancel

SpecCancel == InitCancel /\ [][NextCancel]_vars

SpecExcluded == InitExcluded /\ [][ResolveExcluded]_vars

----------------------------------------------------------------------------
(* Vocabulary of the properties *)

\* The names of the teams of a remote organization.
RemoteNames(org) == {org[i].Name : i \in DOMAIN org}

\* The member set of the remote team with the given name (empty when the
\* organization has no such team).
RemoteMembers(org, name) ==
    UNION {Range(org[i].Members) : i \in {j \in DOMAIN org : org[j].Name = name}}

\* The TeamConfig that describes a remote team: its ID, its members sorted,
\* and its review assignment when delegation is switched on.
Counterpart(t) ==
    [ID |-> t.ID,
     Members |-> SortedSeq(Range(t.Members)),
     CodeReviewAssignment |->
         IF t.Delegation.ReviewRequestDelegationEnabled
         THEN [Algorithm |-> t.Delegation.ReviewRequestDelegationAlgorithm,
               Enabled |-> TRUE,
               ExcludedMembers |-> << >>,
               NotifyTeam |-> t.Delegation.ReviewRequestDelegationNotifyTeam,
               TeamMemberCount |-> t.Delegation.ReviewRequestDelegationMemberCount]
         ELSE ZeroCRA]

\* GetCurrentConfig has returned.
Fetched == pc \notin {"start", "teams", "members", "requeryTeams"}

\* The loop that computes teamChanges has run.
DiffDone == Fetched /\ pc # "fetched" /\ err = NoErr

\* The membership pass was entered with the operator's consent or by force.
MembersConfirmed ==
    /\ DiffDone
    /\ DOMAIN teamChanges # {}
    /\ pc # "confirmMembers"
    /\ force \/ prompts[1].answer = "yes"

\* The apply loop has visited every team with a pending change.
MembersPassOver == MembersConfirmed /\ pc # "apply"

\* The policy pass was entered with the operator's consent or by force.
PolicyConfirmed ==
    /\ pc \in {"policy", "done"}
    /\ err = NoErr
    /\ force \/ (prompts # << >> /\ prompts[Len(prompts)].msg # "Continue?"
                               /\ prompts[Len(prompts)].answer = "yes")

\* The membership calls issued so far for a team, in order.
MemberCallsOf(name) ==
    SelectSeq(calls, LAMBDA x : x.team = name /\ x.kind \in {"add", "remove"})

\* The number of calls of a kind issued so far for a team and a login.
CallCount(kind, name, login) ==
    Len(SelectSeq(calls, LAMBDA x : x.kind = kind /\ x.team = name /\ x.user = login))

----------------------------------------------------------------------------
(* Properties *)

\* C1: when all queries succeed, the snapshot GetCurrentConfig returns has
\* exactly the remote teams as its keys and, for each team, the sorted,
\* duplicate-free list of that team's remote members, whatever the page
\* sizes and the order in which the remote lists teams and members.
C1_SnapshotIsRemote ==
    (pc = "fetched" /\ err = NoErr) =>
        /\ Len(upstreamCfg) = 1
        /\ DOMAIN upstreamCfg[1].Teams = RemoteNames(remote)
        /\ \A i \in DOMAIN remote :
              upstreamCfg[1].Teams[remote[i].Name].Members = SortedSeq(Range(remote[i].Members))

\* Two teams on two teams pages, one of them with three members listed out
\* of order over three members pages.
C1_Witness ==
    /\ pc = "fetched"
    /\ err = NoErr
    /\ teamsPerPage = 1
    /\ membersPerPage = 1
    /\ Len(remote) = 2
    /\ remote[1].Members = <<"c", "a", "b">>
    /\ remote[2].Members = <<"b", "a">>

\* C2: for every local team, toAdd is the local members minus the remote
\* members and toRemove the remote members minus the local ones, so the two
\* are disjoint and (remote + toAdd) - toRemove is the local member set; a
\* change is recorded for the team exactly when one of the two is non-empty.
C2_DiffIsSetDifference ==
    DiffDone =>
        \A n \in DOMAIN localCfg0.Teams :
            LET L == Range(localCfg0.Teams[n].Members)
                R == RemoteMembers(remote0, n)
            IN  /\ n \in DOMAIN teamChanges <=> (L \ R # {} \/ R \ L # {})
                /\ n \in DOMAIN teamChanges =>
                      LET toAdd == Range(teamChanges[n].add)
                          toRemove == Range(teamChanges[n].remove)
                      IN  /\ toAdd = L \ R
                          /\ toRemove = R \ L
                          /\ toAdd \cap toRemove = {}
                          /\ (R \cup toAdd) \ toRemove = L

\* Local {a, b} against remote {b, c}: toAdd = {a}, toRemove = {c}.
C2_Witness ==
    /\ DiffDone
    /\ localCfg0.Teams["Ops"].Members = <<"a", "b">>
    /\ RemoteMembers(remote0, "Ops") = {"b", "c"}
    /\ "Ops" \in DOMAIN teamChanges
    /\ teamChanges["Ops"] = [add |-> <<"a">>, remove |-> <<"c">>]

\* A local team that equals its remote counterpart in every field but
\* excludedMembers.
EqualButExcluded(n) ==
    /\ n \in DOMAIN localCfg0.Teams
    /\ \E i \in DOMAIN remote0 :
          /\ remote0[i].Name = n
          /\ [localCfg0.Teams[n] EXCEPT !.CodeReviewAssignment.ExcludedMembers = << >>]
                = Counterpart(remote0[i])

\* C3: a local team equal to its remote counterpart in every field but
\* excludedMembers has no pending change and never gets an add or remove call.
C3_ExcludedMembersExempt ==
    \A n \in TeamNames :
        EqualButExcluded(n) =>
            /\ DiffDone => n \notin DOMAIN teamChanges
            /\ MemberCallsOf(n) = << >>

\* "Dev Team" differs from the remote only in its excluded member, the run
\* has applied a change to "Ops" and is over.
C3_Witness ==
    /\ pc = "done"
    /\ ret.err = NoErr
    /\ EqualButExcluded("Dev Team")
    /\ localCfg0.Teams["Dev Team"].CodeReviewAssignment.ExcludedMembers = <<"a">>
    /\ localCfg0.Teams["Dev Team"].CodeReviewAssignment.Enabled
    /\ localCfg0.Teams["Dev Team"].Members = <<"a">>
    /\ MemberCallsOf("Ops") # << >>

\* C4: in a confirmed or forced live run whose membership calls all
\* succeed, each team with a pending change gets exactly one add call per
\* login of toAdd, exactly one remove call per login of toRemove and no other
\* membership call, and its remote member set then equals its local one.
C4_ExactCallsReachLocal ==
    (MembersPassOver /\ ~dryRun
        /\ \A i \in DOMAIN calls : calls[i].kind \in {"add", "remove"} => calls[i].ok) =>
        /\ \A i \in DOMAIN calls :
              calls[i].kind \in {"add", "remove"} => calls[i].team \in DOMAIN teamChanges
        /\ \A n \in DOMAIN teamChanges :
              /\ \A l \in Logins :
                    /\ CallCount("add", n, l) =
                          (IF l \in Range(teamChanges[n].add) THEN 1 ELSE 0)
                    /\ CallCount("remove", n, l) =
                          (IF l \in Range(teamChanges[n].remove) THEN 1 ELSE 0)
              /\ RemoteMembers(remote, n) = Range(localCfg0.Teams[n].Members)

\* Local {a, b} against remote {b, c}, applied live: add(a) and remove(c).
C4_Witness ==
    /\ pc = "done"
    /\ ~dryRun
    /\ MembersPassOver
    /\ localCfg0.Teams["Ops"].Members = <<"a", "b">>
    /\ RemoteMembers(remote0, "Ops") = {"b", "c"}
    /\ MemberCallsOf("Ops") = <<MemberCall("add", "Ops", "a"), MemberCall("remove", "Ops", "c")>>
    /\ RemoteMembers(remote, "Ops") = {"a", "b"}

\* C5: a dry run issues no remote mutation call of any kind.
C5_DryRunIssuesNoCall == dryRun => calls = << >>

\* A dry run that went through a confirmed membership pass with a pending
\* change and a confirmed policy pass.
C5_Witness ==
    /\ dryRun
    /\ pc = "done"
    /\ applied # {}
    /\ PolicyConfirmed
    /\ ret.err = NoErr

\* C6: a dry run leaves the local model as a live run does: at every point
\* the teams of the live local model have the IDs, policies and member sets
\* that a dry run making the same choices holds, also when a live call fails.
C6_DryRunSameLocalModel ==
    /\ TeamsAsSets(localCfg.Teams) = dryTwin
    /\ (pc = "done" /\ ret.err = NoErr) => ret.cfg = <<localCfg>>

\* A live run over: one team's calls failed, another team's change was stored.
C6_Witness ==
    /\ pc = "done"
    /\ ret.err = NoErr
    /\ ~dryRun
    /\ failedTeams # {}
    /\ applied # {}

\* C7: the member list stored back for a team is the sorted, duplicate-free
\* list of (original local members + toAdd) - toRemove.
C7_StoredListSorted ==
    \A n \in applied :
        localCfg.Teams[n].Members =
            SortedSeq((Range(localCfg0.Teams[n].Members) \cup Range(teamChanges[n].add))
                          \ Range(teamChanges[n].remove))

\* The policy prompt has been answered, or force made it unnecessary.
PolicyDecided ==
    force \/ (prompts # << >> /\ prompts[Len(prompts)].msg # "Continue?")

\* A confirmation prompt could not be read.
PromptFailed == \E i \in DOMAIN prompts : prompts[i].answer = "error"

\* C8: when a membership call fails for a team, that team gets no further
\* call and keeps its local member list; every team whose calls all succeed
\* gets its complete sequence of adds and removes and its local update; and
\* the run goes on to the policy pass and returns the local model, the
\* failure being no error of SyncTeams.
C8_FailureSkipsOnlyThatTeam ==
    /\ \A n \in failedTeams :
          LET cs == MemberCallsOf(n)
              planned == SyncTeamMembers(n, teamChanges[n].add, teamChanges[n].remove)
          IN  /\ cs # << >>
              /\ Len(cs) <= Len(planned)
              /\ \A i \in DOMAIN cs : cs[i] = [planned[i] EXCEPT !.ok = (i < Len(cs))]
              /\ localCfg.Teams[n].Members = localCfg0.Teams[n].Members
              /\ n \notin applied
    /\ (MembersPassOver /\ ~dryRun) =>
          \A n \in DOMAIN teamChanges \ failedTeams :
              /\ MemberCallsOf(n) =
                    SyncTeamMembers(n, teamChanges[n].add, teamChanges[n].remove)
              /\ n \in applied
              /\ Range(localCfg.Teams[n].Members) =
                    NewMembers(localCfg0.Teams[n].Members, teamChanges[n])
    /\ failedTeams # {} =>
          /\ pc \in {"apply", "confirmPolicy", "policy", "done"}
          /\ pc = "done" =>
                /\ PolicyDecided
                /\ PromptFailed \/ ret = [cfg |-> <<localCfg>>, err |-> NoErr]

\* Two teams with pending changes: the calls of one failed, the other was
\* synced in full, and SyncTeams returned the local model.
C8_Witness ==
    /\ pc = "done"
    /\ ret = [cfg |-> <<localCfg>>, err |-> NoErr]
    /\ failedTeams = {"Ops"}
    /\ Len(MemberCallsOf("Ops")) < Len(teamChanges["Ops"].add) + Len(teamChanges["Ops"].remove)
    /\ applied = {"Dev Team"}
    /\ MemberCallsOf("Dev Team") # << >>
    /\ PolicyConfirmed

\* The operator answered no to the membership prompt / to the policy prompt.
MembersDenied ==
    prompts # << >> /\ prompts[1].msg = "Continue?" /\ prompts[1].answer = "no"

PolicyDenied ==
    prompts # << >> /\ prompts[Len(prompts)].msg # "Continue?"
                    /\ prompts[Len(prompts)].answer = "no"

\* C9 as stated: once the operator has denied a prompt, no mutation call of
\* any kind is issued, the local model keeps its teams and the run returns
\* the local model (unless a later prompt cannot be read).
C9_NoCallAfterAnyDenial ==
    \A i \in DOMAIN prompts :
        prompts[i].answer = "no" =>
            /\ Len(calls) = prompts[i].at
            /\ TeamsAsSets(localCfg.Teams) = TeamsAsSets(localCfg0.Teams)
            /\ (pc = "done" /\ ~PromptFailed) => ret = [cfg |-> <<localCfg>>, err |-> NoErr]

\* C9, amended: a denial ends the pass it guards.  After a denied membership
\* prompt no add or remove call is issued and the local model is unchanged;
\* after a denied policy prompt no call at all is issued and SyncTeams
\* returns the local model without an error.  A denied membership prompt does
\* not end the run: the policy prompt follows.
C9_DenialEndsItsPass ==
    /\ MembersDenied =>
          /\ \A i \in DOMAIN calls : calls[i].kind = "policy"
          /\ localCfg = localCfg0
          /\ pc \in {"confirmPolicy", "policy", "done"}
          /\ pc = "done" => PolicyDecided
          /\ (pc = "done" /\ ~PromptFailed) => ret = [cfg |-> <<localCfg0>>, err |-> NoErr]
    /\ PolicyDenied =>
          /\ Len(calls) = prompts[Len(prompts)].at
          /\ pc = "done"
          /\ ret = [cfg |-> <<localCfg>>, err |-> NoErr]

\* The membership prompt was denied, the policy prompt confirmed, and a
\* policy call was issued.
C9_Witness ==
    /\ pc = "done"
    /\ MembersDenied
    /\ Len(prompts) = 2
    /\ prompts[2].answer = "yes"
    /\ \E i \in DOMAIN calls : calls[i].kind = "policy" /\ calls[i].ok

\* C10: when a page query fails, GetCurrentConfig returns an error and no
\* snapshot, and SyncTeams returns that error without a prompt, without a
\* mutation call and with the local model as it was.
C10_QueryFailureAborts ==
    queryFailed =>
        /\ pc \in {"fetched", "done"}
        /\ upstreamCfg = << >>
        /\ err # NoErr
        /\ prompts = << >>
        /\ calls = << >>
        /\ localCfg = localCfg0
        /\ remote = remote0
        /\ pc = "done" => ret = [cfg |-> << >>, err |-> err]

\* SyncTeams has returned the error of a failed members requery.
C10_Witness ==
    /\ pc = "done"
    /\ queryFailed
    /\ ret.err = "failed to requery team members"
    /\ DOMAIN c.Teams # {}

\* The teams of the policy calls issued so far, in the order of the calls.
PolicyCallTeams ==
    LET cs == SelectSeq(calls, LAMBDA x : x.kind = "policy")
    IN  [i \in DOMAIN cs |-> cs[i].team]

\* C11: once the policy pass is confirmed or forced in a run that is not a
\* dry run, the policy calls issued so far followed by the teams still to be
\* visited are the local teams in ascending name order, whatever the
\* outcomes of the calls, so that on return every local team has received
\* exactly one policy call; and every policy call comes after every
\* membership call of the run.
C11_OnePolicyCallPerTeamInOrder ==
    (PolicyConfirmed /\ ~dryRun) =>
        /\ PolicyCallTeams \o policyTodo = SortedSeq(DOMAIN localCfg0.Teams)
        /\ pc = "done" => PolicyCallTeams = SortedSeq(DOMAIN localCfg0.Teams)
        /\ \A i, j \in DOMAIN calls :
              (calls[i].kind = "policy" /\ calls[j].kind # "policy") => j < i

\* SyncTeams has returned after membership calls and a policy pass whose
\* call for "Dev Team" failed and whose call for "Ops" followed and succeeded.
C11_Witness ==
    /\ pc = "done"
    /\ PolicyConfirmed
    /\ ~dryRun
    /\ PolicyCallTeams = <<"Dev Team", "Ops">>
    /\ Len(calls) > 2
    /\ ~calls[Len(calls) - 1].ok
    /\ calls[Len(calls)].ok

C13_OrgWideNonMemberOmitted ==
    \A r \in resolved :
        LET dir == localCfg.Members
            team == localCfg.Teams[r.team]
        IN  \A l \in Range(localCfg.ExcludeCRAFromAllTeams) :
               (/\ l \notin Range(team.Members)
                /\ l \notin Range(team.CodeReviewAssignment.ExcludedMembers)) =>
                   /\ l \in DOMAIN dir => dir[l].ID \notin Range(r.memberIDs)
                   /\ l \notin Range(r.errors)

\* The teams the policy loop has visited so far, in order.
PolicyVisited == [i \in DOMAIN policyLog |-> policyLog[i].team]

\* C14: with force set no confirmation prompt is ever issued, and both
\* passes run as after a "yes": once the membership pass is behind, the
\* apply loop has visited every team with a pending change, and on return
\* the policy loop has visited every local team and SyncTeams reports no
\* error.
C14_ForceSkipsPrompts ==
    force =>
        /\ prompts = << >>
        /\ (DiffDone /\ pc \in {"confirmPolicy", "policy", "done"}) =>
              applied \cup failedTeams = DOMAIN teamChanges
        /\ (DiffDone /\ pc = "done") =>
              /\ PolicyVisited = SortedSeq(DOMAIN localCfg0.Teams)
              /\ ret = [cfg |-> <<localCfg>>, err |-> NoErr]

\* A forced run has returned after applying a change to each of two teams
\* and visiting both in the policy loop, without a prompt.
C14_Witness ==
    /\ force
    /\ pc = "done"
    /\ prompts = << >>
    /\ applied = {"Dev Team", "Ops"}
    /\ Len(policyLog) = 2
    /\ \E i \in DOMAIN calls : calls[i].kind = "policy" /\ calls[i].ok

\* C15: among the membership calls of one team, no add call is issued after
\* a remove call: the team's adds all come before its removes.
C15_AddsBeforeRemoves ==
    \A i, j \in DOMAIN calls :
        (/\ calls[i].team = calls[j].team
         /\ calls[i].kind = "remove"
         /\ calls[j].kind = "add") => j < i

\* "Ops" has received two add calls and then a remove call.
C15_Witness ==
    /\ Len(MemberCallsOf("Ops")) = 3
    /\ MemberCallsOf("Ops")[1].kind = "add"
    /\ MemberCallsOf("Ops")[2].kind = "add"
    /\ MemberCallsOf("Ops")[3].kind = "remove"
    /\ MemberCallsOf("Ops")[3].ok

\* C16: once the caller's context is cancelled the run is aborted: beyond
\* what preceded the cancellation there is at most the one query, mutation
\* call or prompt that was under way, a call or query among them has failed,
\* and the remote holds exactly the changes of the calls that succeeded.
C16_CancellationAbortsRun ==
    cancelled =>
        /\ (Len(calls) - cancelAt.calls) + (Len(prompts) - cancelAt.prompts)
              + (Len(queries) - cancelAt.queries) <= 1
        /\ \A i \in DOMAIN calls : i > cancelAt.calls => ~calls[i].ok
        /\ \A i \in DOMAIN queries : i > cancelAt.queries => ~queries[i].ok
        /\ remote = ApplyCalls(remote0, calls)

\* The queries issued so far for a teams page, in order.
TeamsQueries == SelectSeq(queries, LAMBDA q : q.kind # "members")

\* C17: every query for a later teams page carries a teams cursor beyond
\* that of the teams page before it and a null members cursor; every members
\* requery carries the end cursor of the members page read just before it
\* and the teams cursor that page was read under, and the page it returns is
\* read for the same team; the first members page read for a team comes from
\* a query with a null members cursor, and every later one from a query
\* whose members cursor is the end cursor of that team's preceding page.
C17_CursorsFollowTheirTeam ==
    /\ \A i \in DOMAIN TeamsQueries :
          IF i = 1
          THEN TeamsQueries[i].kind = "first"
          ELSE /\ TeamsQueries[i].kind = "teams"
               /\ TeamsQueries[i].membersCursor = 0
               /\ TeamsQueries[i].teamsCursor > TeamsQueries[i - 1].teamsCursor
    /\ \A i \in DOMAIN queries :
          queries[i].kind = "members" =>
              LET k == queries[i].reads
              IN  /\ k >= 1
                  /\ reads[k].HasNextPage
                  /\ queries[i].membersCursor = reads[k].EndCursor
                  /\ queries[i].teamsCursor = reads[k].teamsCursor
                  /\ Len(reads) > k => reads[k + 1].team = reads[k].team
    /\ \A k \in DOMAIN reads :
          IF k > 1 /\ reads[k - 1].team = reads[k].team
          THEN /\ reads[k].membersCursor = reads[k - 1].EndCursor
               /\ reads[k].teamsCursor = reads[k - 1].teamsCursor
          ELSE reads[k].membersCursor = 0

\* Two teams on two teams pages, each with three members on three members
\* pages: the second teams page was asked for after the members cursor had
\* advanced twice for the first team.
C17_Witness ==
    /\ pc = "fetched"
    /\ err = NoErr
    /\ teamsPerPage = 1
    /\ membersPerPage = 1
    /\ Len(remote) = 2
    /\ Len(reads) = 6
    /\ Len(queries) = 6
    /\ queries[3].kind = "members" /\ queries[3].membersCursor = 2
    /\ queries[4].kind = "teams" /\ queries[4].membersCursor = 0
    /\ reads[4].team # reads[3].team

\* The number of pages of n records at `first` records a page (an empty
\* connection has one empty page).
PageCount(n, first) == IF n = 0 THEN 1 ELSE (n + first - 1) \div first

\* The number of queries a fetch of the remote organization takes when every
\* loop stops at the first page without a next page: one per teams page and
\* one per members page after the first of each team.
QueriesNeeded ==
    LET extra[i \in 0..Len(remote)] ==
            IF i = 0 THEN 0
            ELSE extra[i - 1] + PageCount(Len(remote[i].Members), membersPerPage) - 1
    IN  PageCount(Len(remote), teamsPerPage) + extra[Len(remote)]

\* Both loops stop at the first page that reports no next page: a team of
\* which such a members page was read is not read again, a teams page is
\* asked for only after a teams page that reports a next one, and the
\* queries never outnumber the pages.
LoopsEndAtLastPage ==
    /\ \A k \in DOMAIN reads :
          ~reads[k].HasNextPage =>
              /\ \A j \in DOMAIN reads : j > k => reads[j].team # reads[k].team
              /\ \A i \in DOMAIN queries :
                    queries[i].kind = "members" => queries[i].reads # k
    /\ \A i \in DOMAIN TeamsQueries :
          (i < Len(TeamsQueries) /\ TeamsQueries[i].ok) =>
              query(TeamsQueries[i]).PageInfo.HasNextPage
    /\ Len(queries) <= QueriesNeeded
    /\ (pc = "fetched" /\ err = NoErr) =>
          /\ Len(queries) = QueriesNeeded
          /\ ~query(TeamsQueries[Len(TeamsQueries)]).PageInfo.HasNextPage
          /\ reads = << >> \/ ~reads[Len(reads)].HasNextPage

\* C18: over a finite remote organization that does not change,
\* GetCurrentConfig returns, and up to then its loops stop at the first page
\* that reports no next page, so that a fetch in which every query succeeds
\* has issued exactly one query per page when it returns.
C18_FetchTerminates == <>(pc = "fetched") /\ []LoopsEndAtLastPage

\* A fetch of two teams on one teams page, of three and of two members at
\* one member a page, has returned after four queries.
C18_Witness ==
    /\ pc = "fetched"
    /\ err = NoErr
    /\ teamsPerPage = 2
    /\ membersPerPage = 1
    /\ Len(remote) = 2
    /\ Len(remote[1].Members) = 3
    /\ Len(remote[2].Members) = 2
    /\ Len(queries) = 4
    /\ Len(reads) = 5

\* C19: at every point of SyncTeams the local model has the team keys and
\* the member directory it was called with, every team has its original ID
\* and review assignment, and a team without a pending change has its
\* original member list; the review assignment the policy loop reads for a
\* team, and the one in the configuration SyncTeams returns, is the original
\* one, excluded members included.
C19_LocalModelFrame ==
    /\ DOMAIN localCfg.Teams = DOMAIN localCfg0.Teams
    /\ localCfg.Members = localCfg0.Members
    /\ \A n \in DOMAIN localCfg0.Teams :
          /\ localCfg.Teams[n].ID = localCfg0.Teams[n].ID
          /\ localCfg.Teams[n].CodeReviewAssignment = localCfg0.Teams[n].CodeReviewAssignment
          /\ n \notin DOMAIN teamChanges =>
                localCfg.Teams[n].Members = localCfg0.Teams[n].Members
    /\ \A i \in DOMAIN policyLog :
          policyLog[i].cra = localCfg0.Teams[policyLog[i].team].CodeReviewAssignment
    /\ (pc = "done" /\ ret.cfg # << >>) =>
          \A n \in DOMAIN localCfg0.Teams :
              ret.cfg[1].Teams[n].CodeReviewAssignment.ExcludedMembers
                  = localCfg0.Teams[n].CodeReviewAssignment.ExcludedMembers

\* SyncTeams has returned after storing a new member list for "Dev Team",
\* whose review assignment excludes "a", and leaving "Ops", which had no
\* pending change, alone; the policy loop has read both teams.
C19_Witness ==
    /\ pc = "done"
    /\ ret.cfg # << >>
    /\ applied = {"Dev Team"}
    /\ DOMAIN teamChanges = {"Dev Team"}
    /\ localCfg.Teams["Dev Team"].Members # localCfg0.Teams["Dev Team"].Members
    /\ localCfg0.Teams["Dev Team"].CodeReviewAssignment.Enabled
    /\ localCfg0.Teams["Dev Team"].CodeReviewAssignment.ExcludedMembers = <<"a">>
    /\ Len(policyLog) = 2

\* The teams the remote held when SyncTeams was called and the local model
\* does not name.
RemoteOnly == {i \in DOMAIN remote0 : remote0[i].Name \notin DOMAIN localCfg0.Teams}

\* C20: every pending change and every mutation call is for a team that is
\* a key of the local model, a membership call addressing the slug of that
\* team's name and a policy call the ID stored for it; a team that only the
\* remote holds has no pending change, is addressed by no call and is left
\* as it was.
C20_CallsTargetLocalTeams ==
    /\ DOMAIN teamChanges \subseteq DOMAIN localCfg0.Teams
    /\ \A i \in DOMAIN calls :
          /\ calls[i].team \in DOMAIN localCfg0.Teams
          /\ calls[i].target = IF calls[i].kind = "policy"
                               THEN localCfg0.Teams[calls[i].team].ID
                               ELSE slug(calls[i].team)
    /\ \A r \in RemoteOnly :
          /\ remote0[r].Name \notin DOMAIN teamChanges
          /\ \A i \in DOMAIN calls :
                calls[i].target \notin {slug(remote0[r].Name), remote0[r].ID}
          /\ remote[r] = remote0[r]

\* The remote holds "Dev Team", which the local model does not name;
\* SyncTeams has returned after successful membership and policy calls for
\* "Ops".
C20_Witness ==
    /\ pc = "done"
    /\ RemoteOnly # {}
    /\ "Ops" \in applied
    /\ MemberCallsOf("Ops") # << >>
    /\ \E i \in DOMAIN calls : calls[i].kind = "policy" /\ calls[i].ok
    /\ remote # remote0

====
